---- MODULE Spec2Model ----
(***************************************************************************)
(* A model of the hand-written lexical scanner of lexer/lexer.go.          *)
(*                                                                         *)
(* The source text is a sequence of byte values (0..255); Go's 0-based     *)
(* index i of the input is index i+1 of the sequence.  The Lexer struct is *)
(* the record l, with the fields of the struct under their own names.      *)
(* Every helper of the scanner is an operator from Lexer records to Lexer  *)
(* records (and what the helper returns), computed the way the code        *)
(* computes it; a loop of the code is a RECURSIVE operator.                *)
(*                                                                         *)
(* A loop of the code that can no longer exit is reported by the flag      *)
(* hung: once readPosition >= len(input), readChar stores 0 in ch for ever *)
(* after, so a loop whose condition lets the byte 0 through spins (its     *)
(* counters grow until the int wraps, after which input[readPosition]      *)
(* panics); in neither case does the call return a token.                  *)
(***************************************************************************)
EXTENDS Integers, Sequences, FiniteSets, TLC

\* ------------------------------------------------------------------ bytes
NUL == 0
TAB == 9
LF == 10
CR == 13
SPACE == 32
BANG_CH == 33
QUOTE == 34
PERCENT_CH == 37
LPAREN_CH == 40
RPAREN_CH == 41
STAR == 42
PLUS_CH == 43
COMMA_CH == 44
MINUS_CH == 45
PERIOD_CH == 46
SLASH_CH == 47
SEMICOLON_CH == 59
LT_CH == 60
EQUALS == 61
GT_CH == 62
LBRACKET_CH == 91
BACKSLASH == 92
RBRACKET_CH == 93
UNDERSCORE == 95
LBRACE_CH == 123
RBRACE_CH == 125

\* ------------------------------------------------------------ token types
EOF == "EOF"
ILLEGAL == "ILLEGAL"
IDENT == "IDENT"
INT == "INT"
STRING_TYPE == "STRING"
ASSIGN == "="
INCREMENT == "++"
DECREMENT == "--"
PLUS_EQUALS == "+="
MINUS_EQUALS == "-="
PLUS == "+"
MINUS == "-"
ASTERISK == "*"
SLASH == "/"
PERCENT == "%"
BANG == "!"
EQ == "=="
NEQ == "!="
LT == "<"
GT == ">"
LE == "<="
GE == ">="
LPAREN == "("
RPAREN == ")"
LBRACKET == "["
RBRACKET == "]"
LBRACE == "{"
RBRACE == "}"
COMMA == ","
PERIOD == "."
SEMICOLON == ";"
IF_KW == "if"
ELSE_KW == "else"
WHILE == "while"
RETURN == "return"
INT_TYPE == "int"
VOID_TYPE == "void"
FOR == "for"
PRINTF == "printf"
COMMENT == "COMMENT"

\* The spellings lookupIdent compares an identifier with, as bytes.
kw_if == <<105, 102>>
kw_else == <<101, 108, 115, 101>>
kw_while == <<119, 104, 105, 108, 101>>
kw_return == <<114, 101, 116, 117, 114, 110>>
kw_int == <<105, 110, 116>>
kw_void == <<118, 111, 105, 100>>
kw_for == <<102, 111, 114>>
kw_printf == <<112, 114, 105, 110, 116, 102>>

\* ----------------------------------------------------------- conversions
\* Go's string(ch) for a byte ch: the UTF-8 encoding of the code point ch,
\* one byte below 0x80 and two bytes from 0x80 on.
string(b) ==
    IF b < 128 THEN <<b>> ELSE <<192 + (b \div 64), 128 + (b % 64)>>

\* input[a:b] of Go.
Slice(s, a, b) == SubSeq(s, a + 1, b)

\* The zero value of Token (var tok Token).
ZeroToken == [Type |-> "", Literal |-> <<>>, Line |-> 0, Position |-> 0]

newToken(tokenType, b, ln, pos) ==
    [Type |-> tokenType, Literal |-> string(b), Line |-> ln, Position |-> pos]

\* unicode.IsLetter(rune(ch)) for a byte: the letters of Latin-1.
IsLatin1Letter(b) ==
    \/ (65 <= b /\ b <= 90)
    \/ (97 <= b /\ b <= 122)
    \/ b \in {170, 181, 186}
    \/ (192 <= b /\ b <= 214)
    \/ (216 <= b /\ b <= 246)
    \/ (248 <= b /\ b <= 255)

isDigit(b) == 48 <= b /\ b <= 57

\* isLetter, had it let digits through as well.
isLetterOrDigit(b) == IsLatin1Letter(b) \/ b = UNDERSCORE \/ isDigit(b)

isLetter(b) == IsLatin1Letter(b) \/ b = UNDERSCORE

lookupIdent(ident) ==
    CASE ident = kw_if -> IF_KW
      [] ident = kw_else -> ELSE_KW
      [] ident = kw_while -> WHILE
      [] ident = kw_return -> RETURN
      [] ident = kw_int -> INT_TYPE
      [] ident = kw_void -> VOID_TYPE
      [] ident = kw_for -> FOR
      [] ident = kw_printf -> PRINTF
      [] OTHER -> IDENT

\* ------------------------------------------------------- cursor operations
\* readChar, had it left position behind.
readCharLagging(L) ==
    [L EXCEPT !.ch = IF L.readPosition >= Len(L.input)
                     THEN 0
                     ELSE L.input[L.readPosition + 1],
              !.readPosition = L.readPosition + 1,
              !.tokenPosition = L.tokenPosition + 1]

readChar(L) ==
    [L EXCEPT !.ch = IF L.readPosition >= Len(L.input)
                     THEN 0
                     ELSE L.input[L.readPosition + 1],
              !.position = L.readPosition,
              !.readPosition = L.readPosition + 1,
              !.tokenPosition = L.tokenPosition + 1]

\* peekChar, had it indexed the input with position and not readPosition.
peekCharAtPosition(L) ==
    IF L.position >= Len(L.input) THEN 0 ELSE L.input[L.position + 1]

peekChar(L) ==
    IF L.readPosition >= Len(L.input) THEN 0 ELSE L.input[L.readPosition + 1]

RECURSIVE skipWhitespace(_)
skipWhitespace(L) ==
    IF L.ch = SPACE \/ L.ch = TAB \/ L.ch = CR
    THEN skipWhitespace(readChar(L))
    ELSE L

\* return l.errors
Errors(L) == L.errors

\* return len(l.errors) != 0
HasErrors(L) == Len(L.errors) # 0

\* addError, had it kept only the newest message.
addErrorOverwriting(L, msg) ==
    [L EXCEPT !.errors = <<"[" \o ToString(L.line) \o ":"
                              \o ToString(L.tokenPosition) \o "] " \o msg>>]

\* fmt.Sprintf("[%d:%d] ", l.line, l.tokenPosition) + msg
addError(L, msg) ==
    [L EXCEPT !.errors = Append(@, "[" \o ToString(L.line) \o ":"
                                    \o ToString(L.tokenPosition) \o "] " \o msg)]

NewLexer(input) ==
    LET l0 == [input |-> input, position |-> 0, readPosition |-> 0, ch |-> 0,
               line |-> 1, tokenPosition |-> 0, errors |-> <<>>]
    IN  readChar(l0)

\* The input is exhausted: every later readChar leaves ch = 0.
Exhausted(L) == L.readPosition >= Len(L.input) /\ L.ch = 0

\* ---------------------------------------------------------------- readers
\* for l.ch != '\r' && l.ch != '\n' { l.readChar() }
RECURSIVE lineCommentLoop(_)
lineCommentLoop(L) ==
    IF L.ch # CR /\ L.ch # LF
    THEN IF Exhausted(L) THEN [l |-> L, hung |-> TRUE]
         ELSE lineCommentLoop(readChar(L))
    ELSE [l |-> L, hung |-> FALSE]

readLineComment(L) ==
    LET r == lineCommentLoop(L)
    IN  [l |-> r.l, hung |-> r.hung,
         literal |-> IF r.hung THEN <<>> ELSE Slice(L.input, L.position, r.l.position)]

\* for { if l.ch == '*' && l.peekChar() == '/' { break }
\*       else if l.ch == '\n' { l.line++ }; l.readChar() }
RECURSIVE blockCommentLoop(_)
blockCommentLoop(L) ==
    IF L.ch = STAR /\ peekChar(L) = SLASH_CH
    THEN [l |-> L, hung |-> FALSE]
    ELSE IF Exhausted(L) THEN [l |-> L, hung |-> TRUE]
         ELSE blockCommentLoop(
                  readChar(IF L.ch = LF THEN [L EXCEPT !.line = @ + 1] ELSE L))

readBlockComment(L) ==
    LET r == blockCommentLoop(L)
        L2 == readChar(readChar(r.l))
    IN  IF r.hung THEN [l |-> r.l, hung |-> TRUE, literal |-> <<>>]
        ELSE [l |-> L2, hung |-> FALSE,
              literal |-> Slice(L.input, L.position, L2.position)]

\* for l.ch != '"' { if l.ch == '\n' { return ..., error }; l.readChar() }
RECURSIVE stringLoop(_)
stringLoop(L) ==
    IF L.ch # QUOTE
    THEN IF L.ch = LF THEN [l |-> L, hung |-> FALSE, err |-> TRUE]
         ELSE IF Exhausted(L) THEN [l |-> L, hung |-> TRUE, err |-> FALSE]
         ELSE stringLoop(readChar(L))
    ELSE [l |-> L, hung |-> FALSE, err |-> FALSE]

\* readString, had it sliced from the opening quote: input[position:l.position].
readStringFromQuote(L) ==
    LET r == stringLoop(readChar(L))
    IN  [l |-> r.l, hung |-> r.hung, err |-> r.err,
         literal |-> IF r.hung THEN <<>>
                     ELSE Slice(L.input, L.position, r.l.position)]

readString(L) ==
    LET r == stringLoop(readChar(L))
    IN  [l |-> r.l, hung |-> r.hung, err |-> r.err,
         literal |-> IF r.hung THEN <<>>
                     ELSE Slice(L.input, L.position + 1, r.l.position)]

RECURSIVE identifierLoop(_)
identifierLoop(L) == IF isLetter(L.ch) THEN identifierLoop(readChar(L)) ELSE L

readIdentifier(L) ==
    LET L2 == identifierLoop(L)
    IN  [l |-> L2, literal |-> Slice(L.input, L.position, L2.position)]

RECURSIVE numberLoop(_)
numberLoop(L) == IF isDigit(L.ch) THEN numberLoop(readChar(L)) ELSE L

readNumber(L) ==
    LET L2 == numberLoop(L)
    IN  [l |-> L2, literal |-> Slice(L.input, L.position, L2.position)]

\* ------------------------------------------------------------- NextToken
\* What one pass of the switch leaves: the Lexer, the token, whether the
\* case returned from inside the switch (identifiers and numbers do, and
\* skip the trailing readChar), and whether a reader's loop cannot exit.
Out(L, t) == [l |-> L, tok |-> t, returned |-> FALSE, hung |-> FALSE]

\* The token of a case that fills tok field by field after a reader ran.
Filled(tokenType, literal, L) ==
    [Type |-> tokenType, Literal |-> literal, Line |-> L.line,
     Position |-> L.tokenPosition]

\* ch := l.ch; l.readChar(); tok = Token{Type: ..., Literal: string(ch) +
\* string(l.ch), Line: l.line, Position: l.tokenPosition}
twoChar(L, tokenType) ==
    LET L1 == readChar(L)
    IN  Out(L1, [Type |-> tokenType, Literal |-> string(L.ch) \o string(L1.ch),
                 Line |-> L1.line, Position |-> L1.tokenPosition])

oneChar(L, tokenType) == Out(L, newToken(tokenType, L.ch, L.line, L.position))

caseSlash(L) ==
    IF peekChar(L) = SLASH_CH
    THEN LET r == readLineComment(L)
         IN  [l |-> r.l, tok |-> Filled(COMMENT, r.literal, r.l),
              returned |-> FALSE, hung |-> r.hung]
    ELSE IF peekChar(L) = STAR
    THEN LET r == readBlockComment(L)
         IN  [l |-> r.l, tok |-> Filled(COMMENT, r.literal, r.l),
              returned |-> FALSE, hung |-> r.hung]
    ELSE oneChar(L, SLASH)

caseQuote(L) ==
    LET r == readString(L)
        L1 == IF r.err THEN addError(r.l, "non-terminated string") ELSE r.l
    IN  [l |-> L1, tok |-> Filled(STRING_TYPE, r.literal, L1),
         returned |-> FALSE, hung |-> r.hung]

caseDefault(L) ==
    IF isLetter(L.ch)
    THEN LET r == readIdentifier(L)
         IN  [l |-> r.l, tok |-> Filled(lookupIdent(r.literal), r.literal, r.l),
              returned |-> TRUE, hung |-> FALSE]
    ELSE IF isDigit(L.ch)
    THEN LET r == readNumber(L)
         IN  [l |-> r.l, tok |-> Filled(INT, r.literal, r.l),
              returned |-> TRUE, hung |-> FALSE]
    ELSE oneChar(L, ILLEGAL)

\* case 0, had it reported the end of the input in the error log as well.
caseEOFLogged(L) ==
    Out(addError(L, "unexpected end of input"),
        [ZeroToken EXCEPT !.Literal = <<>>, !.Type = EOF])

\* case 0: tok.Literal = ""; tok.Type = EOF
caseEOF(L) == Out(L, [ZeroToken EXCEPT !.Literal = <<>>, !.Type = EOF])

\* switch l.ch, every case but '\n'.
switch(L) ==
    CASE L.ch = EQUALS ->
            IF peekChar(L) = EQUALS THEN twoChar(L, EQ) ELSE oneChar(L, ASSIGN)
      [] L.ch = PLUS_CH ->
            IF peekChar(L) = PLUS_CH THEN twoChar(L, INCREMENT)
            ELSE IF peekChar(L) = EQUALS THEN twoChar(L, PLUS_EQUALS)
            ELSE oneChar(L, PLUS)
      [] L.ch = MINUS_CH ->
            IF peekChar(L) = MINUS_CH THEN twoChar(L, DECREMENT)
            ELSE IF peekChar(L) = EQUALS THEN twoChar(L, MINUS_EQUALS)
            ELSE oneChar(L, MINUS)
      [] L.ch = STAR -> oneChar(L, ASTERISK)
      [] L.ch = SLASH_CH -> caseSlash(L)
      [] L.ch = PERCENT_CH -> oneChar(L, PERCENT)
      [] L.ch = BANG_CH ->
            IF peekChar(L) = EQUALS THEN twoChar(L, NEQ) ELSE oneChar(L, BANG)
      [] L.ch = LT_CH ->
            IF peekChar(L) = EQUALS THEN twoChar(L, LE) ELSE oneChar(L, LT)
      [] L.ch = GT_CH ->
            IF peekChar(L) = EQUALS THEN twoChar(L, GE) ELSE oneChar(L, GT)
      [] L.ch = LPAREN_CH -> oneChar(L, LPAREN)
      [] L.ch = RPAREN_CH -> oneChar(L, RPAREN)
      [] L.ch = LBRACE_CH -> oneChar(L, LBRACE)
      [] L.ch = RBRACE_CH -> oneChar(L, RBRACE)
      [] L.ch = LBRACKET_CH -> oneChar(L, LBRACKET)
      [] L.ch = RBRACKET_CH -> oneChar(L, RBRACKET)
      [] L.ch = COMMA_CH -> oneChar(L, COMMA)
      [] L.ch = PERIOD_CH -> oneChar(L, PERIOD)
      [] L.ch = SEMICOLON_CH -> oneChar(L, SEMICOLON)
      [] L.ch = NUL -> caseEOF(L)
      [] L.ch = QUOTE -> caseQuote(L)
      [] OTHER -> caseDefault(L)

\* case '\n': l.line++; l.readChar(); l.skipWhitespace(); l.tokenPosition = 0
caseNewline(L) ==
    [skipWhitespace(readChar([L EXCEPT !.line = @ + 1]))
        EXCEPT !.tokenPosition = 0]

\* for { repeat = false; switch l.ch {...}; if !repeat { break } }
RECURSIVE tokenLoop(_)
tokenLoop(L) == IF L.ch = LF THEN tokenLoop(caseNewline(L)) ELSE switch(L)

\* The statement after the loop: l.readChar(); return tok.
trailingReadChar(L) == readChar(L)

NextToken(L) ==
    LET r == tokenLoop(skipWhitespace(L))
    IN  IF r.hung \/ r.returned THEN r
        ELSE [r EXCEPT !.l = trailingReadChar(r.l)]

\* ---------------------------------------------------------------- Tokens
\* for { tok = l.NextToken(); result = append(result, tok);
\*       if tok.Type == EOF { break } }
RECURSIVE tokensLoop(_, _)
\* One iteration, given what its NextToken call did.
tokensStep(L, res, r) ==
    IF r.hung THEN [l |-> r.l, result |-> res, hung |-> TRUE]
    ELSE IF r.tok.Type = EOF
    THEN [l |-> r.l, result |-> Append(res, r.tok), hung |-> FALSE]
    ELSE tokensLoop(r.l, Append(res, r.tok))

tokensLoop(L, res) == tokensStep(L, res, NextToken(L))

\* func (l *Lexer) Tokens() []Token, from result := []Token{}
Tokens(L) == tokensLoop(L, <<>>)

\* ---------------------------------------------------------------- inputs
MaxCommentLen == 5
MaxStringLen == 4
MaxOperatorLen == 3
MaxWords == 2
MaxMixedLen == 2
MaxPastEnd == 2

Seqs(S, n) == UNION {[1..k -> S] : k \in 0..n}

RECURSIVE Concat(_)
Concat(ws) == IF ws = <<>> THEN <<>> ELSE Head(ws) \o Concat(Tail(ws))

\* '/', '*', line-feed, 'a'
CommentBytes == {SLASH_CH, STAR, LF, 97}
\* '"', line-feed, 'a', backslash
StringBytes == {QUOTE, LF, 97, BACKSLASH}
\* the operator bytes
OperatorBytes == {EQUALS, PLUS_CH, MINUS_CH, STAR, SLASH_CH, PERCENT_CH,
                  BANG_CH, LT_CH, GT_CH}
\* the keywords, "x", "1", "_", " ", and the Latin-1 letter 0xE9
Words == {kw_if, kw_else, kw_while, kw_return, kw_int, kw_void, kw_for,
          kw_printf, <<120>>, <<49>>, <<UNDERSCORE>>, <<SPACE>>, <<233>>}
\* a byte of every class the switch tells apart: 0, whitespace, line-feed,
\* '"', '/', '*', '=', ';', 'a', '@', 0x80, 0xE9
MixedBytes == {NUL, TAB, LF, CR, QUOTE, SLASH_CH, STAR, EQUALS,
               SEMICOLON_CH, 97, 64, 128, 233}

Inputs ==
    Seqs(CommentBytes, MaxCommentLen)
        \cup Seqs(StringBytes, MaxStringLen)
        \cup Seqs(OperatorBytes, MaxOperatorLen)
        \cup {Concat(ws) : ws \in Seqs(Words, MaxWords)}
        \cup Seqs(MixedBytes, MaxMixedLen)

\* ----------------------------------------------------------- the machine
VARIABLES
    l,       \* the Lexer
    tok,     \* the token the last NextToken call returned
    result,  \* the slice the last Tokens call returned
    pc,      \* "ready", "returned" (Tokens has returned), or "hung"
    call,    \* the method called last: "", "NextToken", "Tokens",
             \* "Errors" or "HasErrors"
    ret      \* what the last Errors or HasErrors call returned

vars == <<l, tok, result, pc, call, ret>>

\* Nothing returned by an accessor yet.
NoReturn == [errors |-> <<>>, hasErrors |-> FALSE]

Init ==
    /\ \E input \in Inputs : l = NewLexer(input)
    /\ tok = ZeroToken
    /\ result = <<>>
    /\ pc = "ready"
    /\ call = ""
    /\ ret = NoReturn

\* The caller goes on calling while the cursor is at most MaxPastEnd bytes
\* beyond the input (every call made at the end moves it one further).
MayCall == pc \in {"ready", "returned"} /\ l.position < Len(l.input) + MaxPastEnd

CallNextToken ==
    /\ MayCall
    /\ call' = "NextToken"
    /\ LET r == NextToken(l)
       IN  /\ l' = r.l
           /\ tok' = IF r.hung THEN tok ELSE r.tok
           /\ pc' = IF r.hung THEN "hung" ELSE pc
    /\ ret' = NoReturn
    /\ UNCHANGED result

CallTokens ==
    /\ MayCall
    /\ call' = "Tokens"
    /\ LET r == Tokens(l)
       IN  /\ l' = r.l
           /\ tok' = IF r.hung \/ r.result = <<>> THEN tok
                     ELSE r.result[Len(r.result)]
           /\ result' = IF r.hung THEN result ELSE r.result
           /\ pc' = IF r.hung THEN "hung" ELSE "returned"
    /\ ret' = NoReturn

\* The accessors can be called as long as the caller has not been lost in a
\* call that does not return.
CallErrors ==
    /\ pc # "hung"
    /\ call' = "Errors"
    /\ ret' = [NoReturn EXCEPT !.errors = Errors(l)]
    /\ UNCHANGED <<l, tok, result, pc>>

CallHasErrors ==
    /\ pc # "hung"
    /\ call' = "HasErrors"
    /\ ret' = [NoReturn EXCEPT !.hasErrors = HasErrors(l)]
    /\ UNCHANGED <<l, tok, result, pc>>

Next == CallNextToken \/ CallTokens \/ CallErrors \/ CallHasErrors

Spec == Init /\ [][Next]_vars

\* ------------------------------------------------- the source, as written
\* What the claims say of the source text itself, stated on the input and
\* not on the scanner's own bookkeeping.
Min(a, b) == IF a <= b THEN a ELSE b

\* The number of line-feeds among the first n bytes of s.
LFCount(s, n) == Cardinality({i \in 1..Min(n, Len(s)) : s[i] = LF})

\* The 0-based index of the first byte of s at or after from that is in B;
\* Len(s) when there is none.
FirstIn(s, from, B) ==
    LET I == {i \in from..(Len(s) - 1) : s[i + 1] \in B}
    IN  IF I = {} THEN Len(s) ELSE CHOOSE i \in I : \A j \in I : i <= j

\* The 0-based index of the first "*/" of s that starts at or after from;
\* Len(s) when there is none.
FirstTerminator(s, from) ==
    LET I == {i \in from..(Len(s) - 2) : s[i + 1] = STAR /\ s[i + 2] = SLASH_CH}
    IN  IF I = {} THEN Len(s) ELSE CHOOSE i \in I : \A j \in I : i <= j

\* The current byte of L is the source byte at index i.
AtByte(L, i) == L.position = i /\ i < Len(L.input) /\ L.ch = L.input[i + 1]

\* The call starts at a '"' and a line-feed comes before the next '"'.
CutString(L) ==
    /\ L.position < Len(L.input)
    /\ L.ch = QUOTE
    /\ FirstIn(L.input, L.position + 1, {LF}) < FirstIn(L.input, L.position + 1, {QUOTE})

\* The call starts at a '"' and the next '"' comes before any line-feed.
ClosedString(L) ==
    /\ L.position < Len(L.input)
    /\ L.ch = QUOTE
    /\ FirstIn(L.input, L.position + 1, {QUOTE}) < FirstIn(L.input, L.position + 1, {LF})

\* ------------------------------------------------------------------ C1
\* C1: Tokens() terminates on every finite input; what it returns is
\* non-empty, ends with an EOF token and holds no EOF token before the last;
\* for the empty input it is exactly one EOF token.
C1_TokensTerminates ==
    [][CallTokens =>
          /\ pc' = "returned"
          /\ result' # <<>>
          /\ result'[Len(result')].Type = EOF
          /\ \A i \in 1..(Len(result') - 1) : result'[i].Type # EOF
          /\ (l.input = <<>> => Len(result') = 1)]_vars

\* ------------------------------------------------------------------ C2
\* C2: between NextToken calls, line is 1 plus the number of line-feeds
\* among the bytes consumed so far, input[0 .. position).
C2_LineCountsConsumedLineFeeds ==
    pc # "hung" => l.line = 1 + LFCount(l.input, l.position)

\* ------------------------------------------------------------------ C3
\* C3: a NextToken call that starts at a '"' with a line-feed before the
\* next '"' returns a STRING token whose literal is the bytes between the
\* quote and the line-feed, and appends exactly one error,
\* "[line:column] non-terminated string", with the line and the column at
\* which the line-feed was found; a string closed by a quote appends none.
C3_CutStringLogsOneError ==
    [][CallNextToken =>
          /\ CutString(l) =>
                LET q == FirstIn(l.input, l.position + 1, {LF})
                IN  /\ pc' # "hung"
                    /\ tok'.Type = STRING_TYPE
                    /\ tok'.Literal = Slice(l.input, l.position + 1, q)
                    /\ l'.errors =
                          Append(l.errors,
                                 "[" \o ToString(1 + LFCount(l.input, q)) \o ":"
                                     \o ToString(l.tokenPosition + (q - l.position))
                                     \o "] non-terminated string")
          /\ ClosedString(l) => l'.errors = l.errors]_vars

\* ------------------------------------------------------------------ C4
\* C4: the NextToken call that returns a line-feed-cut STRING token does not
\* consume the line-feed: when it returns, the current byte is that
\* line-feed, and line has not moved.
C4_CutStringLeavesLineFeed ==
    [][(CallNextToken /\ CutString(l)) =>
          /\ pc' # "hung"
          /\ AtByte(l', FirstIn(l.input, l.position + 1, {LF}))
          /\ l'.line = l.line]_vars

\* The cursor of L stands on index i: the byte there, or the end sentinel
\* when i is the end of the input, is the one the next call starts from.
CursorAt(L, i) ==
    /\ L.position = i
    /\ L.readPosition = i + 1
    /\ L.ch = IF i < Len(L.input) THEN L.input[i + 1] ELSE 0

\* The byte after the current one, -1 when there is none.
Following(L) ==
    IF L.position + 1 < Len(L.input) THEN L.input[L.position + 2] ELSE -1

\* The index at which the token of the next call starts: the first byte at
\* or after the cursor that is no space, tab, carriage return or line-feed.
TokenStart(L) ==
    LET I == {i \in L.position..(Len(L.input) - 1) :
                 L.input[i + 1] \notin {SPACE, TAB, CR, LF}}
    IN  IF I = {} THEN Len(L.input) ELSE CHOOSE i \in I : \A j \in I : i <= j

\* The source byte at index i, -1 when i is no index of s.
ByteAt(s, i) == IF 0 <= i /\ i < Len(s) THEN s[i + 1] ELSE -1

\* ------------------------------------------------------------------ C5
\* The two-character operators and the single-character fallbacks, with the
\* kind of each.
OperatorPairs ==
    { <<<<61, 61>>, "==">>, <<<<33, 61>>, "!=">>, <<<<60, 61>>, "<=">>,
      <<<<62, 61>>, ">=">>, <<<<43, 43>>, "++">>, <<<<45, 45>>, "--">>,
      <<<<43, 61>>, "+=">>, <<<<45, 61>>, "-=">> }

OperatorSingles ==
    { <<61, "=">>, <<43, "+">>, <<45, "-">>, <<42, "*">>, <<47, "/">>,
      <<37, "%">>, <<33, "!">>, <<60, "<">>, <<62, ">">> }

\* C5: when the current byte (the first one after any whitespace and line
\* boundaries the call skips) and the next form one of == != <= >= ++ -- +=
\* -=, NextToken returns one token of that kind whose literal is those two
\* bytes and consumes exactly two bytes; otherwise, for a current byte in
\* = + - * / % ! < > that does not start a comment, it returns the
\* single-character token whose literal is that byte and consumes exactly
\* one byte, so the following byte starts the next token.
C5_GreedyTwoCharOperators ==
    [][(/\ CallNextToken
        /\ \E o \in OperatorSingles : o[1] = ByteAt(l.input, TokenStart(l))) =>
          LET s == TokenStart(l)
              a == ByteAt(l.input, s)
              b == ByteAt(l.input, s + 1)
          IN  IF \E p \in OperatorPairs : p[1] = <<a, b>>
              THEN \A p \in OperatorPairs :
                      p[1] = <<a, b>> =>
                          /\ pc' # "hung"
                          /\ tok'.Type = p[2]
                          /\ tok'.Literal = <<a, b>>
                          /\ CursorAt(l', s + 2)
              ELSE IF a = 47 /\ b \in {47, 42}
              THEN TRUE
              ELSE \A o \in OperatorSingles :
                      o[1] = a =>
                          /\ pc' # "hung"
                          /\ tok'.Type = o[2]
                          /\ tok'.Literal = <<a>>
                          /\ CursorAt(l', s + 1)]_vars

\* "!==" was scanned as "!=" followed by "=".
C5_Witness ==
    /\ call = "Tokens"
    /\ pc = "returned"
    /\ Len(result) = 3
    /\ result[1].Type = "!=" /\ result[1].Literal = <<33, 61>>
    /\ result[2].Type = "=" /\ result[2].Literal = <<61>>

\* ------------------------------------------------------------------ C6
\* A letter byte, as the identifier rule classifies bytes: the ASCII
\* letters and the bytes that are letters of Latin-1; and the underscore.
LetterByte(b) ==
    b \in (65..90) \cup (97..122) \cup {95} \cup {170, 181, 186}
             \cup (192..214) \cup (216..246) \cup (248..255)

\* The index just after the maximal run of letter bytes that starts at from.
RunEnd(s, from) ==
    LET I == {i \in from..(Len(s) - 1) : ~LetterByte(s[i + 1])}
    IN  IF I = {} THEN Len(s) ELSE CHOOSE i \in I : \A j \in I : i <= j

KeywordKinds ==
    { <<kw_if, "if">>, <<kw_else, "else">>, <<kw_while, "while">>,
      <<kw_return, "return">>, <<kw_int, "int">>, <<kw_void, "void">>,
      <<kw_for, "for">>, <<kw_printf, "printf">> }

ClosedBlockComment(L) ==
    /\ L.ch = SLASH_CH
    /\ Following(L) = STAR
    /\ FirstTerminator(L.input, L.position + 2) < Len(L.input)

\* C7: for a "/*" whose terminator exists, NextToken returns one COMMENT
\* token whose literal runs from "/*" through the first "*/" that begins
\* after the two opening bytes, and consumes nothing beyond that "*/": the
\* current byte is then the byte right after it.
C7_BlockCommentStopsAfterTerminator ==
    [][(CallNextToken /\ ClosedBlockComment(l)) =>
          LET t == FirstTerminator(l.input, l.position + 2)
          IN  /\ pc' # "hung"
              /\ tok'.Type = "COMMENT"
              /\ tok'.Literal = Slice(l.input, l.position, t + 2)
              /\ CursorAt(l', t + 2)]_vars

\* ------------------------------------------------------------------ C8
\* The call starts at "//" and a carriage return or line-feed follows.
EndedLineComment(L) ==
    /\ L.ch = SLASH_CH
    /\ Following(L) = SLASH_CH
    /\ FirstIn(L.input, L.position, {CR, LF}) < Len(L.input)

\* C8: for a "//" comment, NextToken returns one COMMENT token whose
\* literal runs from "//" up to, not including, the first carriage return
\* or line-feed, and does not consume that byte: it is the current byte
\* when the call returns.
C8_LineCommentLeavesTerminator ==
    [][(CallNextToken /\ EndedLineComment(l)) =>
          LET q == FirstIn(l.input, l.position, {CR, LF})
          IN  /\ pc' # "hung"
              /\ tok'.Type = "COMMENT"
              /\ tok'.Literal = Slice(l.input, l.position, q)
              /\ AtByte(l', q)]_vars

\* ------------------------------------------------------------------ C9
\* The call starts at "/*" and no "*/" comes before the end of the input.
OpenBlockComment(L) ==
    /\ L.ch = SLASH_CH
    /\ Following(L) = STAR
    /\ FirstTerminator(L.input, L.position + 1) = Len(L.input)

\* C9: when a "/*" has no "*/" before the end of the input, the NextToken
\* call that starts at it returns one COMMENT token covering the source from
\* "/*" to the end, leaves the error log as it was, and the next NextToken
\* call returns EOF.
C9_OpenBlockCommentReturns ==
    [][(CallNextToken /\ OpenBlockComment(l)) =>
          /\ pc' # "hung"
          /\ tok'.Type = "COMMENT"
          /\ tok'.Literal = Slice(l.input, l.position, Len(l.input))
          /\ l'.errors = l.errors
          /\ NextToken(l').tok.Type = "EOF"]_vars

\* ----------------------------------------------------------------- C10
\* The number of bytes of line k of s (lines are numbered from 1 and end at
\* a line-feed, which is not counted).
LineLength(s, k) ==
    Cardinality({i \in 1..Len(s) : s[i] # LF /\ LFCount(s, i - 1) = k - 1})

\* C10: every token NextToken returns, of every kind, carries a 1-based
\* line, equal to the line the scanner has reached, and a 1-based column
\* within that line: 1 <= Position <= length of that line + 1.
C10_TokensCarryLineAndColumn ==
    (call = "NextToken" /\ pc # "hung") =>
        /\ tok.Line >= 1
        /\ tok.Line = l.line
        /\ 1 <= tok.Position
        /\ tok.Position <= LineLength(l.input, tok.Line) + 1

\* ----------------------------------------------------------------- C11
\* The last NextToken (or Tokens) call ended on EOF with the whole input
\* consumed: the cursor stands beyond the last byte.
ExhaustedEOF == tok.Type = EOF /\ l.position > Len(l.input)

\* C11: once NextToken has returned EOF because the input is exhausted,
\* every later NextToken call returns, its token is of Type EOF with the
\* empty literal, and the error log is left as it was.
C11_EOFRepeats ==
    [][(CallNextToken /\ ExhaustedEOF) =>
          /\ pc' # "hung"
          /\ tok'.Type = EOF
          /\ tok'.Literal = <<>>
          /\ l'.errors = l.errors]_vars

\* A NextToken call made after the EOF of an exhausted input has returned
\* EOF again.
C11_Witness ==
    /\ call = "NextToken"
    /\ tok.Type = EOF
    /\ tok.Literal = <<>>
    /\ l.position = Len(l.input) + MaxPastEnd

\* ----------------------------------------------------------------- C12
\* C12: NextToken returns EOF only when the cursor, whitespace skipped, has
\* reached len(input), and Tokens returns, on its final EOF, only with
\* every byte of the input consumed: a zero byte of the source does not
\* stand for the end.
C12_EOFOnlyAtEndOfInput ==
    [][/\ (CallNextToken /\ pc' # "hung" /\ tok'.Type = EOF) =>
              TokenStart(l) >= Len(l.input)
       /\ (CallTokens /\ pc' = "returned") =>
              l'.position > Len(l.input)]_vars

\* ----------------------------------------------------------------- C13
\* The bytes the claim names as starting something else than ILLEGAL:
\* whitespace, line-feed, ASCII letters, underscore, ASCII digits, '"' and
\* the operator and punctuation bytes.
NamedBytes ==
    {SPACE, TAB, CR, LF, UNDERSCORE, QUOTE}
        \cup (65..90) \cup (97..122) \cup (48..57)
        \cup {EQUALS, PLUS_CH, MINUS_CH, STAR, SLASH_CH, PERCENT_CH, BANG_CH,
              LT_CH, GT_CH, LPAREN_CH, RPAREN_CH, LBRACE_CH, RBRACE_CH,
              LBRACKET_CH, RBRACKET_CH, COMMA_CH, PERIOD_CH, SEMICOLON_CH}

\* The token of the next call starts at a source byte outside NamedBytes.
AtOtherByte(L) ==
    /\ TokenStart(L) < Len(L.input)
    /\ ByteAt(L.input, TokenStart(L)) \notin NamedBytes

\* C13: when the token starts at a source byte that is none of the named
\* ones (every byte >= 0x80 included), NextToken returns an ILLEGAL token
\* whose literal is that one byte, leaves the cursor on the byte after it
\* and appends nothing to the error log.
C13_OtherByteIsIllegal ==
    [][(CallNextToken /\ AtOtherByte(l)) =>
          /\ pc' # "hung"
          /\ tok'.Type = ILLEGAL
          /\ tok'.Literal = <<ByteAt(l.input, TokenStart(l))>>
          /\ CursorAt(l', TokenStart(l) + 1)
          /\ l'.errors = l.errors]_vars

\* ----------------------------------------------------------------- C15
\* s is a prefix of t.
IsPrefix(s, t) == Len(s) <= Len(t) /\ SubSeq(t, 1, Len(s)) = s

\* C15: the error log only grows at its end, across every call; a NextToken
\* call that returns a token of a kind other than STRING leaves it as it
\* was; Errors() and HasErrors() change nothing of the scanner, Errors()
\* returns the log and HasErrors() returns TRUE exactly when the log is
\* non-empty.
C15_ErrorLogAppendOnly ==
    [][/\ IsPrefix(l.errors, l'.errors)
       /\ (CallNextToken /\ pc' # "hung" /\ tok'.Type # STRING_TYPE) =>
              l'.errors = l.errors
       /\ CallErrors =>
              l' = l /\ tok' = tok /\ ret'.errors = l.errors
       /\ CallHasErrors =>
              /\ l' = l /\ tok' = tok
              /\ ret'.hasErrors <=> (Errors(l') # <<>>)]_vars

\* Two cut strings have been logged, one after the other, and HasErrors()
\* has answered TRUE.
C15_Witness ==
    /\ Len(l.errors) = 2
    /\ tok.Type = STRING_TYPE
    /\ call = "HasErrors"
    /\ ret.hasErrors

\* ----------------------------------------------------------------- C16
\* C16: position never decreases, whatever the operation; a NextToken call
\* that returns a token other than EOF leaves position strictly greater
\* than it found it, so that a returning call that leaves position where it
\* was has returned EOF.
C16_CursorMovesForward ==
    [][/\ l'.position >= l.position
       /\ (CallNextToken /\ pc' # "hung" /\ tok'.Type # EOF) =>
              l'.position > l.position
       /\ (CallNextToken /\ pc' # "hung" /\ l'.position = l.position) =>
              tok'.Type = EOF]_vars

\* A NextToken call has returned a token other than EOF from the middle of
\* the input, after another call had moved the cursor.
C16_Witness ==
    /\ call = "NextToken"
    /\ pc # "hung"
    /\ tok.Type \notin {EOF, ""}
    /\ result = <<>>
    /\ tok.Position > 1
    /\ 1 < l.position /\ l.position < Len(l.input)

\* ----------------------------------------------------------------- C17
\* C17: in every reachable state readPosition = position + 1,
\* position <= len(input), the current byte is input[position] when
\* position < len(input), and once the input is exhausted position equals
\* len(input) and the current byte is the end sentinel 0.
C17_CursorWithinInput ==
    /\ l.readPosition = l.position + 1
    /\ l.position <= Len(l.input)
    /\ l.position < Len(l.input) => l.ch = l.input[l.position + 1]
    /\ l.position >= Len(l.input) => (l.position = Len(l.input) /\ l.ch = 0)

\* ----------------------------------------------------------------- C18
\* The index of the first '"' after the one at index q.
ClosingQuote(s, q) == FirstIn(s, q + 1, {QUOTE})

\* The token of the next call starts at a '"' and the next '"' comes before
\* any line-feed.
AtClosedString(L) ==
    /\ TokenStart(L) < Len(L.input)
    /\ ByteAt(L.input, TokenStart(L)) = QUOTE
    /\ ClosingQuote(L.input, TokenStart(L))
           < FirstIn(L.input, TokenStart(L) + 1, {LF})

\* C18: for a string literal closed by a '"' before any line-feed,
\* NextToken returns a STRING token whose literal is the source bytes
\* strictly between the two quotes, byte for byte (a backslash changes
\* nothing; "" gives the empty literal), leaves the cursor on the byte right
\* after the closing quote and appends no error.
C18_ClosedStringLiteral ==
    [][(CallNextToken /\ AtClosedString(l)) =>
          /\ pc' # "hung"
          /\ tok'.Type = STRING_TYPE
          /\ tok'.Literal = Slice(l.input, TokenStart(l) + 1,
                                   ClosingQuote(l.input, TokenStart(l)))
          /\ CursorAt(l', ClosingQuote(l.input, TokenStart(l)) + 1)
          /\ l'.errors = l.errors]_vars

\* NextToken has returned the literal of "\a", a backslash and an a, as two
\* bytes, with the cursor just after the closing quote and no error.
C18_Witness ==
    /\ l.input = <<QUOTE, BACKSLASH, 97, QUOTE>>
    /\ call = "NextToken"
    /\ tok.Type = STRING_TYPE
    /\ tok.Literal = <<BACKSLASH, 97>>
    /\ l.position = Len(l.input)
    /\ l.errors = <<>>

\* ----------------------------------------------------------------- C19
\* C19: NextToken never fails at run time: every call returns, every index
\* it has taken of the input was within 0..len(input), and the index the
\* next readChar or peekChar will test, readPosition, is not negative.  A
\* call that stays in readLineComment, readBlockComment or readString
\* at the end of the input (pc' = "hung") repeats readChar, and with it
\* l.readPosition++, until the int wraps to a negative value, which passes
\* the test l.readPosition >= len(l.input) and indexes l.input.
C19_NextTokenNeverFails ==
    [][CallNextToken =>
          /\ pc' # "hung"
          /\ 0 <= l'.position
          /\ 0 <= l'.readPosition]_vars

====
